---- MODULE Spec2Model ----
(***************************************************************************)
(* Model of the url-to-pdf client (src/src/app/page.tsx: the IndexedDB     *)
(* PDF cache and the handleSubmit conversion flow) and of the /api/pdf     *)
(* request handler (src/unnamed/part_000).                                 *)
(*                                                                         *)
(* Strings that the code concatenates or parses (URLs, page sizes, cache   *)
(* keys) are sequences of one-character strings.  Each browser tab runs    *)
(* one instance of the Home component; the IndexedDB database and          *)
(* localStorage are shared by the tabs of the origin.  One action is one   *)
(* event handler or one continuation of an async function: it starts when  *)
(* an awaited request settles and runs up to the next await.               *)
(***************************************************************************)
EXTENDS Integers, Sequences, FiniteSets, TLC

VARIABLES
    tabs,              \* per tab: the Home component's state and handleSubmit's locals
    store,             \* records of the 'pdfs' object store
    objectStores,      \* object stores of the 'pdfCache' database, with their
                       \* key path and indexes
    dbVersion,         \* 0: the database does not exist yet
    clock,             \* the last value Date.now() returned
    lsCount,           \* localStorage 'conversionCount'
    submits,           \* submit events handled so far
    renders,           \* PDFs the render endpoint has produced so far
    puts,              \* store.put requests that have succeeded so far
    tokenPresent,      \* process.env.BROWSERLESS_TOKEN is set
    input,             \* the arguments of a call of a helper function
    output,            \* what the call returned
    request,           \* the body of a request the /api/pdf handler received
    srv                \* the /api/pdf handler's position and what it did so far

vars == <<tabs, store, objectStores, dbVersion, clock, lsCount, submits,
          renders, puts, tokenPresent, input, output, request, srv>>

\* The state of the page and of its browser storage
clientVars == <<tabs, store, objectStores, dbVersion, clock, lsCount, submits,
                renders, puts>>

\* A call of a helper function
fnVars == <<input, output>>

\* A run of the /api/pdf handler
serverVars == <<request, srv>>

----------------------------------------------------------------------------
\* Bounds of the model

MaxSubmits == 2

\* The values Date.now() takes
Times == 0..1

Tabs == {"tab1", "tab2"}

----------------------------------------------------------------------------
\* Values

UrlA == <<"h", "t", "t", "p", ":", "/", "/", "a">>
UrlB == <<"h", "t", "t", "p", ":", "/", "/", "b">>
NotAUrl == <<"n", "o", "t", "-", "a", "-", "u", "r", "l">>
EmptyUrl == <<>>

A4 == <<"a", "4">>
Letter == <<"l", "e", "t", "t", "e", "r">>
Custom == <<"c", "u", "s", "t", "o", "m">>

PageSize == {A4, Letter, Custom}

\* What the form holds when it is submitted: <<url, pageSize>>.  handleSubmit
\* itself checks only that url is not empty; it is the handler of the form's
\* submit event, whatever dispatched it.
FormInputs ==
    {<<EmptyUrl, A4>>, <<NotAUrl, A4>>, <<UrlA, A4>>, <<UrlA, Letter>>,
     <<UrlB, A4>>}

SchemeChars == {"h", "t", "p", "s", "f", "a", "b", "n", "o", "u", "r", "l"}

\* z.string().url() accepts what new URL(s) parses: a scheme, a colon and
\* something after it.
IsValidUrl(s) ==
    \E i \in 2..Len(s) :
        /\ s[i] = ":"
        /\ i < Len(s)
        /\ \A j \in 1..(i - 1) : s[j] \in SchemeChars

\* Mutant: the schema without .strict(), unknown fields are dropped
requestSchema_lax(body) ==
    IF "url" \notin DOMAIN body THEN [success |-> FALSE, message |-> "Required"]
    ELSE IF ~IsValidUrl(body.url)
    THEN [success |-> FALSE, message |-> "Invalid url"]
    ELSE IF "pageSize" \in DOMAIN body /\ body.pageSize \notin PageSize
    THEN [success |-> FALSE, message |-> "Invalid enum value"]
    ELSE [success |-> TRUE, message |-> "",
          data |-> [url |-> body.url,
                    pageSize |-> IF "pageSize" \in DOMAIN body
                                 THEN body.pageSize ELSE A4]]

\* requestSchema.safeParse(body): url is required and must parse, pageSize is
\* one of the enum values and 'a4' when absent, other fields are refused
requestSchema(body) ==
    IF "url" \notin DOMAIN body THEN [success |-> FALSE, message |-> "Required"]
    ELSE IF ~IsValidUrl(body.url)
    THEN [success |-> FALSE, message |-> "Invalid url"]
    ELSE IF "pageSize" \in DOMAIN body /\ body.pageSize \notin PageSize
    THEN [success |-> FALSE, message |-> "Invalid enum value"]
    ELSE IF DOMAIN body \ {"url", "pageSize"} # {}
    THEN [success |-> FALSE, message |-> "Unrecognized key(s) in object"]
    ELSE [success |-> TRUE, message |-> "",
          data |-> [url |-> body.url,
                    pageSize |-> IF "pageSize" \in DOMAIN body
                                 THEN body.pageSize ELSE A4]]

NoBlob == [id |-> 0, url |-> <<>>, pageSize |-> <<>>]

\* Mutant: the key leaves the page size out
generateCacheKey_urlOnly(url, pageSize) == url \o <<"|">>

\* Mutant: the key leaves the url out
generateCacheKey_sizeOnly(url, pageSize) == <<"|">> \o pageSize

generateCacheKey(url, pageSize) == url \o <<"|">> \o pageSize

----------------------------------------------------------------------------
\* The 'pdfs' object store (keyPath 'cacheKey')

NoEntry == [cacheKey |-> <<>>, url |-> <<>>, pageSize |-> <<>>, blob |-> NoBlob,
            timestamp |-> 0]

\* Mutant: the lookup returns some record of the store, whatever its key
StoreGet_any(records, cacheKey) ==
    IF records # {} THEN CHOOSE e \in records : TRUE ELSE NoEntry

\* store.get(cacheKey): the record with that key, or undefined
StoreGet(records, cacheKey) ==
    IF \E e \in records : e.cacheKey = cacheKey
    THEN CHOOSE e \in records : e.cacheKey = cacheKey
    ELSE NoEntry

\* Mutant: the store is emptied before the record is written
StorePut_clear(records, cacheEntry) == {cacheEntry}

\* Mutant: put as an insert that never replaces a record (no key path)
StorePut_add(records, cacheEntry) == records \cup {cacheEntry}

\* Mutant: store.add semantics, the record already under the key stays
StorePut_keepFirst(records, cacheEntry) ==
    IF \E e \in records : e.cacheKey = cacheEntry.cacheKey THEN records
    ELSE records \cup {cacheEntry}

\* store.put(cacheEntry) on a store with keyPath 'cacheKey': upsert by key
StorePut(records, cacheEntry) ==
    {e \in records : e.cacheKey # cacheEntry.cacheKey} \cup {cacheEntry}

\* Mutant: the record is keyed by the url alone
CacheEntry_urlKey(url, pageSize, blob, now) ==
    [cacheKey |-> url, url |-> url, pageSize |-> pageSize, blob |-> blob,
     timestamp |-> now]

\* const cacheEntry = { cacheKey: generateCacheKey(url, pageSize), url, ... }
CacheEntry(url, pageSize, blob, now) ==
    [cacheKey |-> generateCacheKey(url, pageSize), url |-> url,
     pageSize |-> pageSize, blob |-> blob, timestamp |-> now]

\* db.objectStoreNames
objectStoreNames(stores) == {s.name : s \in stores}

\* db.createObjectStore('pdfs', { keyPath: 'cacheKey' }) and
\* store.createIndex('timestamp', 'timestamp', { unique: false })
PdfsStore ==
    [name |-> "pdfs", keyPath |-> "cacheKey",
     indexes |-> {[name |-> "timestamp", keyPath |-> "timestamp",
                   unique |-> FALSE]}]

\* Mutant: the upgrade creates the store without its index
onupgradeneeded_noIndex(stores) ==
    IF "pdfs" \notin objectStoreNames(stores)
    THEN stores \cup {[PdfsStore EXCEPT !.indexes = {}]}
    ELSE stores

\* request.onupgradeneeded of indexedDB.open('pdfCache', 1)
onupgradeneeded(stores) ==
    IF "pdfs" \notin objectStoreNames(stores)
    THEN stores \cup {PdfsStore}
    ELSE stores

\* result?.blob || null
BlobOf(result) == IF result = NoEntry THEN NoBlob ELSE result.blob

----------------------------------------------------------------------------
\* The /api/pdf handler: the response to a request body, given whether the
\* provider renders the page ("render_ok") or throws ("render_fail").

POST(body, token, outcome, pdf) ==
    LET result == requestSchema(body) IN
    IF ~result.success
    THEN [ok |-> FALSE, status |-> 400,
          error |-> "Invalid request: " \o result.message, body |-> NoBlob]
    ELSE IF ~token
    THEN [ok |-> FALSE, status |-> 500,
          error |-> "Server configuration error: Browserless token not found",
          body |-> NoBlob]
    ELSE IF outcome = "render_fail"
    THEN [ok |-> FALSE, status |-> 500, error |-> "Failed to generate PDF",
          body |-> NoBlob]
    ELSE [ok |-> TRUE, status |-> 200, error |-> "", body |-> pdf]

----------------------------------------------------------------------------
\* Continuations of handleSubmit, as functions of the tab's record

Log(r, event) == [r EXCEPT !.log = Append(@, event)]

Has(log, event) == \E i \in DOMAIN log : log[i] = event

Count(log, event) == Cardinality({i \in DOMAIN log : log[i] = event})

\* event a occurs in the log, and every a has some event of bs before it
Precedes(log, bs, a) ==
    \A i \in DOMAIN log : log[i] = a => \E j \in 1..(i - 1) : log[j] \in bs

\* Mutant: the finally block leaves the loading flag set
Finally_keepLoading(r) == [r EXCEPT !.pc = "idle"]

\* finally { setIsLoading(false) }
Finally(r) == [r EXCEPT !.isLoading = FALSE, !.pc = "idle"]

\* Mutant: a failed request is issued once more before giving up
Catch_retry(r, message) ==
    IF Count(r.log, "fetch") < 2
    THEN Log([r EXCEPT !.pc = "fetch"], "fetch")
    ELSE Finally([r EXCEPT !.error = message])

\* catch (err) { setError(err.message) }
Catch(r, message) == Finally([r EXCEPT !.error = message])

\* handleDownload(blob, url)
handleDownload(r, blob) == Log([r EXCEPT !.downloaded = blob], "download")

\* updateConversionCount(), then the finally block
updateConversionCount(r) ==
    Finally([r EXCEPT !.conversionCount = @ + 1])

\* Mutant: the hit and miss flags are swapped
AfterLookup_flagsSwapped(r, cachedPdf) ==
    IF cachedPdf # NoBlob
    THEN updateConversionCount(
             handleDownload([r EXCEPT !.cacheStatus = "miss"], cachedPdf))
    ELSE Log([r EXCEPT !.cacheStatus = "hit", !.pc = "fetch"], "fetch")

\* Mutant: the cached PDF is ignored and the page is always rendered again
AfterLookup_ignoreCache(r, cachedPdf) ==
    Log([r EXCEPT !.cacheStatus = "miss", !.pc = "fetch"], "fetch")

\* if (cachedPdf) { ... } else { ... fetch('/api/pdf', ...) }
AfterLookup(r, cachedPdf) ==
    IF cachedPdf # NoBlob
    THEN updateConversionCount(
             handleDownload([r EXCEPT !.cacheStatus = "hit"], cachedPdf))
    ELSE Log([r EXCEPT !.cacheStatus = "miss", !.pc = "fetch"], "fetch")

\* after await savePdfToCache(...): handleDownload(blob, url) and the count
AfterSave(r) == updateConversionCount(handleDownload(r, r.blob))

\* Mutant: the catch block rethrows, so handleSubmit's catch reports the error
getPdfFromCache_rethrow(r, message) == Catch(r, message)

\* getPdfFromCache: catch (error) { console.error(...); return null }
getPdfFromCache_catch(r, message) == AfterLookup(r, NoBlob)

\* Mutant: the catch block rethrows, so handleSubmit's catch reports the error
savePdfToCache_rethrow(r, message) == Catch(r, message)

\* savePdfToCache: catch (error) { console.error(...) }
savePdfToCache_catch(r, message) == AfterSave(r)

\* const db = await initializeDB(): the object stores once the open succeeded
initializeDB(stores, version) ==
    IF version < 1 THEN onupgradeneeded(stores) ELSE stores

\* localStorage.setItem('conversionCount', newCount) when the count was updated
SetItem(old, new) ==
    IF new.conversionCount # old.conversionCount THEN new.conversionCount
    ELSE lsCount

----------------------------------------------------------------------------
\* Initial state: two freshly loaded tabs, no database yet

InitTab ==
    [pc |-> "idle", url |-> EmptyUrl, pageSize |-> A4, isLoading |-> FALSE,
     error |-> "null", cacheStatus |-> "null", conversionCount |-> 0,
     blob |-> NoBlob, log |-> <<>>, downloaded |-> NoBlob, held |-> NoBlob,
     putSeq |-> 0]

Init ==
    /\ tabs = [t \in Tabs |-> InitTab]
    /\ store = {}
    /\ objectStores = {}
    /\ dbVersion = 0
    /\ clock = 0
    /\ lsCount = 0
    /\ submits = 0
    /\ renders = 0
    /\ puts = 0
    /\ tokenPresent \in BOOLEAN
    /\ input = <<>>
    /\ output = <<>>
    /\ request = <<>>
    /\ srv = <<>>

----------------------------------------------------------------------------
\* Events

\* A submit of the form: url and pageSize are what setUrl and setPageSize last
\* stored from the form's fields.  handleSubmit runs up to its first await
\* (initializeDB inside getPdfFromCache); with an empty url it returns at once.
\* log, downloaded, held, blob and putSeq record what the conversion of the
\* tab's current url and pageSize has done, so every submit starts them anew.
\* While isLoading is set the component renders the spinner instead of the
\* form, so no submit event reaches the tab.
handleSubmit(t, url, pageSize) ==
    /\ ~tabs[t].isLoading
    /\ submits < MaxSubmits
    /\ IF url = EmptyUrl
       THEN tabs' = [tabs EXCEPT ![t] =
                [@ EXCEPT !.url = url, !.pageSize = pageSize,
                          !.blob = NoBlob, !.log = <<>>,
                          !.downloaded = NoBlob, !.held = NoBlob,
                          !.putSeq = 0]]
       ELSE tabs' = [tabs EXCEPT ![t] =
                [@ EXCEPT !.url = url, !.pageSize = pageSize,
                          !.isLoading = TRUE, !.error = "null",
                          !.cacheStatus = "null", !.pc = "getPdfFromCache_open",
                          !.blob = NoBlob, !.log = <<>>,
                          !.downloaded = NoBlob, !.held = NoBlob,
                          !.putSeq = 0]]
    /\ submits' = submits + 1
    /\ UNCHANGED <<fnVars, serverVars>>
    /\ UNCHANGED <<store, objectStores, dbVersion, clock, lsCount, renders,
                   puts, tokenPresent>>

\* getPdfFromCache: await initializeDB() settles; db.transaction('pdfs')
\* throws when the database has no such object store
getPdfFromCache_open(t) ==
    /\ tabs[t].pc = "getPdfFromCache_open"
    /\ \E opened \in BOOLEAN :
        LET stores == initializeDB(objectStores, dbVersion) IN
        IF opened /\ "pdfs" \in objectStoreNames(stores)
        THEN /\ tabs' = [tabs EXCEPT ![t] =
                    Log([@ EXCEPT !.pc = "getPdfFromCache_get"], "open_ok")]
             /\ objectStores' = stores
             /\ dbVersion' = 1
             /\ lsCount' = lsCount
        ELSE LET r == getPdfFromCache_catch(Log(tabs[t], "open_fail"),
                          IF opened THEN "NotFoundError"
                          ELSE "Failed to open database")
             IN /\ tabs' = [tabs EXCEPT ![t] = r]
                /\ objectStores' = IF opened THEN stores ELSE objectStores
                /\ dbVersion' = IF opened THEN 1 ELSE dbVersion
                /\ lsCount' = SetItem(tabs[t], r)
    /\ UNCHANGED <<fnVars, serverVars>>
    /\ UNCHANGED <<store, clock, submits, renders, puts, tokenPresent>>

\* Mutant: a hit writes the record back with a fresh timestamp
getPdfFromCache_get_touch(t) ==
    /\ tabs[t].pc = "getPdfFromCache_get"
    /\ \E now \in {n \in Times : n >= clock} :
        LET cacheKey == generateCacheKey(tabs[t].url, tabs[t].pageSize)
            result == StoreGet(store, cacheKey)
            seen == [tabs[t] EXCEPT !.held = BlobOf(result)]
            r == AfterLookup(Log(seen, "get_ok"), BlobOf(result))
        IN /\ tabs' = [tabs EXCEPT ![t] = r]
           /\ lsCount' = SetItem(tabs[t], r)
           /\ clock' = now
           /\ store' = IF result = NoEntry THEN store
                       ELSE StorePut(store, [result EXCEPT !.timestamp = now])
    /\ UNCHANGED <<fnVars, serverVars>>
    /\ UNCHANGED <<objectStores, dbVersion, submits, renders, puts,
                   tokenPresent>>

\* getPdfFromCache: the store.get request settles (held: what the store held
\* under the key when the request ran)
getPdfFromCache_get(t) ==
    /\ tabs[t].pc = "getPdfFromCache_get"
    /\ \E succeeded \in BOOLEAN :
        LET cacheKey == generateCacheKey(tabs[t].url, tabs[t].pageSize)
            result == StoreGet(store, cacheKey)
            seen == [tabs[t] EXCEPT !.held = BlobOf(result)]
            r == IF succeeded
                 THEN AfterLookup(Log(seen, "get_ok"), BlobOf(result))
                 ELSE getPdfFromCache_catch(Log(seen, "get_fail"),
                                            "Failed to get PDF from cache")
        IN /\ tabs' = [tabs EXCEPT ![t] = r]
           /\ lsCount' = SetItem(tabs[t], r)
    /\ UNCHANGED <<fnVars, serverVars>>
    /\ UNCHANGED <<store, objectStores, dbVersion, clock, submits, renders,
                   puts, tokenPresent>>

\* await fetch('/api/pdf', ...) settles; a non-ok response throws
handleSubmit_fetch(t) ==
    /\ tabs[t].pc = "fetch"
    /\ \E outcome \in {"network_error", "render_ok", "render_fail"} :
        LET body == [url |-> tabs[t].url, pageSize |-> tabs[t].pageSize]
            pdf == [id |-> renders + 1, url |-> body.url,
                    pageSize |-> body.pageSize]
            response == POST(body, tokenPresent, outcome, pdf)
        IN
        IF outcome = "network_error"
        THEN /\ tabs' = [tabs EXCEPT ![t] =
                    Catch(Log(@, "fetch_fail"), "Failed to fetch")]
             /\ renders' = renders
        ELSE IF ~response.ok
        THEN /\ tabs' = [tabs EXCEPT ![t] =
                    Catch(Log(@, "response_error"),
                          IF response.error # "" THEN response.error
                          ELSE "Failed to generate PDF")]
             /\ renders' = renders
        ELSE /\ tabs' = [tabs EXCEPT ![t] =
                    Log([@ EXCEPT !.pc = "blob", !.blob = response.body],
                        "response_ok")]
             /\ renders' = renders + 1
    /\ UNCHANGED <<fnVars, serverVars>>
    /\ UNCHANGED <<store, objectStores, dbVersion, clock, lsCount, submits,
                   puts, tokenPresent>>

\* Mutant: savePdfToCache is not awaited, the download does not wait for it
handleSubmit_blob_unawaited(t) ==
    /\ tabs[t].pc = "blob"
    /\ LET r == AfterSave(Log(tabs[t], "blob_ok")) IN
        /\ tabs' = [tabs EXCEPT ![t] = r]
        /\ lsCount' = SetItem(tabs[t], r)
    /\ UNCHANGED <<fnVars, serverVars>>
    /\ UNCHANGED <<store, objectStores, dbVersion, clock, submits, renders,
                   puts, tokenPresent>>

\* await response.blob() settles: the whole stream arrived, or the read failed
handleSubmit_blob(t) ==
    /\ tabs[t].pc = "blob"
    /\ \E received \in BOOLEAN :
        IF received
        THEN tabs' = [tabs EXCEPT ![t] =
                 Log([@ EXCEPT !.pc = "savePdfToCache_open"], "blob_ok")]
        ELSE tabs' = [tabs EXCEPT ![t] =
                 Catch(Log([@ EXCEPT !.blob = NoBlob], "blob_fail"),
                       "Failed to fetch")]
    /\ UNCHANGED <<fnVars, serverVars>>
    /\ UNCHANGED <<store, objectStores, dbVersion, clock, lsCount, submits,
                   renders, puts, tokenPresent>>

\* savePdfToCache: await initializeDB() settles
savePdfToCache_open(t) ==
    /\ tabs[t].pc = "savePdfToCache_open"
    /\ \E opened \in BOOLEAN :
        LET stores == initializeDB(objectStores, dbVersion) IN
        IF opened /\ "pdfs" \in objectStoreNames(stores)
        THEN /\ tabs' = [tabs EXCEPT ![t] =
                    Log([@ EXCEPT !.pc = "savePdfToCache_put"], "save_open_ok")]
             /\ objectStores' = stores
             /\ dbVersion' = 1
             /\ lsCount' = lsCount
        ELSE LET r == savePdfToCache_catch(Log(tabs[t], "save_open_fail"),
                          IF opened THEN "NotFoundError"
                          ELSE "Failed to open database")
             IN /\ tabs' = [tabs EXCEPT ![t] = r]
                /\ objectStores' = IF opened THEN stores ELSE objectStores
                /\ dbVersion' = IF opened THEN 1 ELSE dbVersion
                /\ lsCount' = SetItem(tabs[t], r)
    /\ UNCHANGED <<fnVars, serverVars>>
    /\ UNCHANGED <<store, clock, submits, renders, puts, tokenPresent>>

\* savePdfToCache: the store.put request settles (putSeq: the rank of this put
\* among the successful ones)
savePdfToCache_put(t) ==
    /\ tabs[t].pc = "savePdfToCache_put"
    /\ \E succeeded \in BOOLEAN, now \in {n \in Times : n >= clock} :
        LET cacheEntry ==
                CacheEntry(tabs[t].url, tabs[t].pageSize, tabs[t].blob, now)
            r == IF succeeded
                 THEN AfterSave(Log([tabs[t] EXCEPT !.putSeq = puts + 1], "put_ok"))
                 ELSE savePdfToCache_catch(Log(tabs[t], "put_fail"),
                                           "Failed to save PDF to cache")
        IN /\ store' = IF succeeded THEN StorePut(store, cacheEntry) ELSE store
           /\ puts' = IF succeeded THEN puts + 1 ELSE puts
           /\ clock' = now
           /\ tabs' = [tabs EXCEPT ![t] = r]
           /\ lsCount' = SetItem(tabs[t], r)
    /\ UNCHANGED <<fnVars, serverVars>>
    /\ UNCHANGED <<objectStores, dbVersion, submits, renders, tokenPresent>>

Next ==
    \E t \in Tabs :
        \/ \E f \in FormInputs : handleSubmit(t, f[1], f[2])
        \/ getPdfFromCache_open(t)
        \/ getPdfFromCache_get(t)
        \/ handleSubmit_fetch(t)
        \/ handleSubmit_blob(t)
        \/ savePdfToCache_open(t)
        \/ savePdfToCache_put(t)

Spec == Init /\ [][Next]_vars

\* The continuation of tab t's conversion that is waiting for its awaited
\* request to settle
Settle(t) ==
    \/ getPdfFromCache_open(t)
    \/ getPdfFromCache_get(t)
    \/ handleSubmit_fetch(t)
    \/ handleSubmit_blob(t)
    \/ savePdfToCache_open(t)
    \/ savePdfToCache_put(t)

\* Every awaited store and network request of a conversion settles in the end
SpecLive == Spec /\ \A t \in Tabs : WF_vars(Settle(t))

----------------------------------------------------------------------------
\* generateFilenameFromUrl, on strings as sequences of characters

Lower == <<"a", "b", "c", "d", "e", "f", "g", "h", "i", "j", "k", "l", "m",
           "n", "o", "p", "q", "r", "s", "t", "u", "v", "w", "x", "y", "z">>
Upper == <<"A", "B", "C", "D", "E", "F", "G", "H", "I", "J", "K", "L", "M",
           "N", "O", "P", "Q", "R", "S", "T", "U", "V", "W", "X", "Y", "Z">>
Digit == <<"0", "1", "2", "3", "4", "5", "6", "7", "8", "9">>

Range(s) == {s[i] : i \in DOMAIN s}

\* [a-zA-Z0-9-]
FilenameChars == Range(Lower) \cup Range(Upper) \cup Range(Digit) \cup {"-"}

\* The characters of a host name that new URL() accepts in the inputs below
HostChars == FilenameChars \cup {"."}

\* Mutant: the host name keeps its capitals
ToLower_keep(c) == c

\* The URL parser lower-cases the host name
ToLower(c) ==
    IF \E i \in DOMAIN Upper : Upper[i] = c
    THEN Lower[CHOOSE i \in DOMAIN Upper : Upper[i] = c]
    ELSE c

StartsWith(s, prefix) ==
    Len(s) >= Len(prefix) /\ SubSeq(s, 1, Len(prefix)) = prefix

\* The first position of s that holds a character of set, Len(s) + 1 if none
FirstOf(s, set) ==
    IF \E i \in DOMAIN s : s[i] \in set
    THEN CHOOSE i \in DOMAIN s :
             s[i] \in set /\ \A j \in 1..(i - 1) : s[j] \notin set
    ELSE Len(s) + 1

Http == <<"h", "t", "t", "p", ":", "/", "/">>
Https == <<"h", "t", "t", "p", "s", ":", "/", "/">>

\* new URL(url), for strings without a scheme (it throws) and for http(s)
\* URLs with a host name of HostChars and no port: hostname is the lower-cased
\* host, pathname runs up to the query or fragment and is "/" when empty.
ParseURL(url) ==
    LET rest == IF StartsWith(url, Https)
                THEN SubSeq(url, Len(Https) + 1, Len(url))
                ELSE IF StartsWith(url, Http)
                THEN SubSeq(url, Len(Http) + 1, Len(url))
                ELSE <<>>
        hostEnd == FirstOf(rest, {"/", "?", "#"})
        host == SubSeq(rest, 1, hostEnd - 1)
        afterHost == SubSeq(rest, hostEnd, Len(rest))
        path == SubSeq(afterHost, 1, FirstOf(afterHost, {"?", "#"}) - 1)
    IN IF host = <<>> \/ ~(Range(host) \subseteq HostChars)
       THEN [ok |-> FALSE, hostname |-> <<>>, pathname |-> <<>>]
       ELSE [ok |-> TRUE,
             hostname |-> [i \in DOMAIN host |-> ToLower(host[i])],
             pathname |-> IF path = <<>> THEN <<"/">> ELSE path]

\* s.replace(pattern, replacement) with a string pattern: the first occurrence
ReplaceFirst(s, pattern, replacement) ==
    LET At(i) == SubSeq(s, i, i + Len(pattern) - 1) = pattern
        starts == {i \in 1..(Len(s) - Len(pattern) + 1) : At(i)}
    IN IF starts = {} THEN s
       ELSE LET i == CHOOSE k \in starts : \A j \in starts : k <= j
            IN SubSeq(s, 1, i - 1) \o replacement
                   \o SubSeq(s, i + Len(pattern), Len(s))

\* s.replace(/^c|c$/g, ''): one c at the start and one c at the end
TrimOne(s, c) ==
    LET t == IF s # <<>> /\ Head(s) = c THEN Tail(s) ELSE s
    IN IF t # <<>> /\ t[Len(t)] = c THEN SubSeq(t, 1, Len(t) - 1) ELSE t

\* s.replace(/\//g, '-')
SlashesToHyphens(s) == [i \in DOMAIN s |-> IF s[i] = "/" THEN "-" ELSE s[i]]

\* s.replace(/[^a-zA-Z0-9-]/g, '-')
Sanitize(s) == [i \in DOMAIN s |-> IF s[i] \in FilenameChars THEN s[i] ELSE "-"]

\* s.replace(/-+/g, '-')
RECURSIVE CollapseHyphens(_)
CollapseHyphens(s) ==
    IF Len(s) < 2 THEN s
    ELSE LET half == Len(s) \div 2
             left == CollapseHyphens(SubSeq(s, 1, half))
             right == CollapseHyphens(SubSeq(s, half + 1, Len(s)))
         IN IF left[Len(left)] = "-" /\ right[1] = "-"
            THEN left \o Tail(right)
            ELSE left \o right

\* s.slice(0, n)
Slice(s, n) == SubSeq(s, 1, IF Len(s) < n THEN Len(s) ELSE n)

\* .slice(0, 100)
MaxFilename == 100

Www == <<"w", "w", "w", ".">>
Page == <<"p", "a", "g", "e">>

\* generateFilenameFromUrl(url); the catch returns 'page'
generateFilenameFromUrl(url) ==
    LET urlObj == ParseURL(url) IN
    IF ~urlObj.ok THEN Page
    ELSE LET hostname == ReplaceFirst(urlObj.hostname, Www, <<>>)
             pathname == urlObj.pathname
             cleanPath == SlashesToHyphens(TrimOne(pathname, "/"))
             filename == IF pathname # <<>> /\ pathname # <<"/">>
                         THEN hostname \o <<"-">> \o cleanPath
                         ELSE hostname
             cut == Slice(TrimOne(CollapseHyphens(Sanitize(filename)), "-"),
                          MaxFilename)
         IN IF cut # <<>> THEN cut ELSE Page

----------------------------------------------------------------------------
\* Calls of the helper functions on their own

\* The page before any submit
Rest ==
    /\ tabs = [t \in Tabs |-> InitTab]
    /\ store = {}
    /\ objectStores = {}
    /\ dbVersion = 0
    /\ clock = 0
    /\ lsCount = 0
    /\ submits = 0
    /\ renders = 0
    /\ puts = 0

\* URLs given to generateCacheKey, some with the separator in them
UrlAPipe == UrlA \o <<"|">>
UrlAPipeA4 == UrlA \o <<"|">> \o A4
KeyUrls == {EmptyUrl, UrlA, UrlB, UrlAPipe, UrlAPipeA4, <<"|">>}

KeyArgs == [url : KeyUrls, pageSize : PageSize]

InitKey ==
    /\ Rest
    /\ tokenPresent = TRUE
    /\ request = <<>>
    /\ srv = <<>>
    /\ input \in [1..2 -> KeyArgs]
    /\ output = <<>>

\* Two calls of generateCacheKey
Call_generateCacheKey ==
    /\ output = <<>>
    /\ output' = [i \in 1..2 |->
                     generateCacheKey(input[i].url, input[i].pageSize)]
    /\ UNCHANGED <<clientVars, tokenPresent, input, serverVars>>

NextKey == Call_generateCacheKey

SpecKey == InitKey /\ [][NextKey]_vars

\* Host names of up to MaxLabels labels, joined by dots
MaxLabels == 3

HostLabels ==
    {<<"w", "w", "w">>, <<"a", "w", "w", "w">>, <<"E", "x", "a", "m", "p", "l", "e">>,
     <<"c", "o", "m">>, <<"b", "-">>}

RECURSIVE Hosts(_)
Hosts(n) ==
    IF n = 1 THEN HostLabels
    ELSE LET shorter == Hosts(n - 1)
         IN shorter \cup {h \o <<".">> \o l : h \in shorter, l \in HostLabels}

\* n copies of s
Repeat(s, n) == [i \in 1..(n * Len(s)) |-> s[((i - 1) % Len(s)) + 1]]

\* A path longer than the file name may be
LongPath == Repeat(<<"/", "a", "b", "c">>, MaxFilename \div 4 + 2)

Paths ==
    {<<>>, <<"/">>, <<"/", "/">>, <<"/", "f", "o", "o", "/", "b", "a", "r", "/">>,
     <<"/", "a", "_", "b", ".", "c">>, <<"/", "x", "?", "q", "/", "r">>,
     <<"/", "-", "/", "-">>, LongPath}

NotAUrlSpaced == <<"n", "o", "t", " ", "a", " ", "u", "r", "l">>
NoScheme == <<"e", "x", "a", "m", "p", "l", "e", ".", "c", "o", "m">>
ExampleUrl ==
    Https \o <<"w", "w", "w", ".", "E", "x", "a", "m", "p", "l", "e", ".", "c", "o", "m">>
          \o <<"/", "f", "o", "o", "/", "b", "a", "r", "/">>

FilenameUrls ==
    {EmptyUrl, NotAUrl, NotAUrlSpaced, NoScheme, Https, Https \o <<"/">>}
        \cup {scheme \o host \o path :
                  scheme \in {Http, Https}, host \in Hosts(MaxLabels),
                  path \in Paths}

InitFilename ==
    /\ Rest
    /\ tokenPresent = TRUE
    /\ request = <<>>
    /\ srv = <<>>
    /\ input \in FilenameUrls
    /\ output = <<>>

\* const filename = `${generateFilenameFromUrl(url)}.pdf`
Call_generateFilenameFromUrl ==
    /\ output = <<>>
    /\ output' = <<generateFilenameFromUrl(input)>>
    /\ UNCHANGED <<clientVars, tokenPresent, input, serverVars>>

NextFilename == Call_generateFilenameFromUrl

SpecFilename == InitFilename /\ [][NextFilename]_vars

----------------------------------------------------------------------------
\* The /api/pdf handler step by step: one action per await of POST.  The
\* handler keeps nothing between requests, so the requests are taken one
\* after another.

MaxRequests == 2

\* The <img> elements of the rendered document
MaxImages == 2

XLarge == <<"x", "l", "a", "r", "g", "e">>

\* A body that request.json() cannot parse
Malformed == [malformed |-> TRUE]

\* Request bodies: without pageSize, with a known or unknown pageSize, with a
\* field the schema does not know, without url, and not JSON at all
Bodies ==
    [url : {UrlA, NotAUrl}]
        \cup [url : {UrlA, NotAUrl}, pageSize : PageSize \cup {XLarge}]
        \cup [url : {UrlA, NotAUrl}, pageSize : {A4}, extra : {"x"}]
        \cup [pageSize : {A4}]
        \cup {Malformed}

NoCallYet ==
    [pc |-> "idle", responses |-> <<>>, url |-> <<>>, pageSize |-> <<>>,
     connect |-> "none", domContentLoaded |-> FALSE, images |-> <<>>,
     pdf |-> "none"]

InitServer ==
    /\ Rest
    /\ tokenPresent \in BOOLEAN
    /\ input = <<>>
    /\ output = <<>>
    /\ request = <<>>
    /\ srv = NoCallYet

\* return NextResponse.json({ error }, { status }) / new NextResponse(stream)
Respond(s, status, error) ==
    [s EXCEPT !.pc = "idle",
              !.responses = Append(@, [status |-> status, error |-> error])]

\* catch (error) { ... status: 500 }
POST_catch(s) == Respond(s, 500, "Failed to generate PDF")

\* Mutant: the image wait is over at once
Resolved_any(status) == TRUE

\* An image's promise is resolved: img.complete, or its load or error event
Resolved(status) == status \in {"complete", "load", "error"}

\* The server receives a request and POST starts: await request.json()
POST_receive(body) ==
    /\ srv.pc = "idle"
    /\ Len(srv.responses) < MaxRequests
    /\ request' = body
    /\ srv' = [NoCallYet EXCEPT !.pc = "json", !.responses = srv.responses]
    /\ UNCHANGED <<clientVars, tokenPresent, fnVars>>

\* request.json() settles; validation and the token check run up to
\* await puppeteer.connect(...)
POST_json ==
    /\ srv.pc = "json"
    /\ srv' = IF request = Malformed THEN POST_catch(srv)
              ELSE LET result == requestSchema(request) IN
                   IF ~result.success
                   THEN Respond(srv, 400, "Invalid request: " \o result.message)
                   ELSE IF ~tokenPresent
                   THEN Respond(srv, 500,
                            "Server configuration error: Browserless token not found")
                   ELSE [srv EXCEPT !.pc = "connect",
                                    !.url = result.data.url,
                                    !.pageSize = result.data.pageSize,
                                    !.connect = "pending"]
    /\ UNCHANGED <<clientVars, tokenPresent, fnVars, request>>

\* puppeteer.connect settles; await browser.newPage()
POST_connect ==
    /\ srv.pc = "connect"
    /\ \E ok \in BOOLEAN :
        srv' = IF ok THEN [srv EXCEPT !.pc = "newPage", !.connect = "open"]
               ELSE POST_catch([srv EXCEPT !.connect = "failed"])
    /\ UNCHANGED <<clientVars, tokenPresent, fnVars, request>>

\* browser.newPage() settles; await page.setViewport(...)
POST_newPage ==
    /\ srv.pc = "newPage"
    /\ \E ok \in BOOLEAN :
        srv' = IF ok THEN [srv EXCEPT !.pc = "setViewport"] ELSE POST_catch(srv)
    /\ UNCHANGED <<clientVars, tokenPresent, fnVars, request>>

\* page.setViewport settles; await page.goto(url, domcontentloaded)
POST_setViewport ==
    /\ srv.pc = "setViewport"
    /\ \E ok \in BOOLEAN :
        srv' = IF ok THEN [srv EXCEPT !.pc = "goto"] ELSE POST_catch(srv)
    /\ UNCHANGED <<clientVars, tokenPresent, fnVars, request>>

\* page.goto settles at DOMContentLoaded and page.evaluate runs its function in
\* the page: the document has n images, each complete already or given its
\* load and error listeners
POST_goto ==
    /\ srv.pc = "goto"
    /\ \E ok \in BOOLEAN, n \in 0..MaxImages :
        \E images \in [1..n -> {"complete", "pending"}] :
            srv' = IF ok
                   THEN [srv EXCEPT !.pc = "evaluate",
                                    !.domContentLoaded = TRUE,
                                    !.images = images]
                   ELSE POST_catch(srv)
    /\ UNCHANGED <<clientVars, tokenPresent, fnVars, request>>

\* An image that was not complete fires load or error
img_event(i, event) ==
    /\ srv.pc = "evaluate"
    /\ i \in DOMAIN srv.images
    /\ srv.images[i] = "pending"
    /\ srv' = [srv EXCEPT !.images[i] = event]
    /\ UNCHANGED <<clientVars, tokenPresent, fnVars, request>>

\* page.evaluate settles once Promise.all has every image's promise resolved,
\* or throws; await page.createPDFStream(...)
POST_evaluate ==
    /\ srv.pc = "evaluate"
    /\ \E ok \in BOOLEAN :
        IF ok
        THEN /\ \A i \in DOMAIN srv.images : Resolved(srv.images[i])
             /\ srv' = [srv EXCEPT !.pc = "createPDFStream", !.pdf = "started"]
        ELSE srv' = POST_catch(srv)
    /\ UNCHANGED <<clientVars, tokenPresent, fnVars, request>>

\* page.createPDFStream settles; return new NextResponse(stream, { headers })
POST_createPDFStream ==
    /\ srv.pc = "createPDFStream"
    /\ \E ok \in BOOLEAN :
        srv' = IF ok THEN Respond([srv EXCEPT !.pdf = "stream"], 200, "")
               ELSE POST_catch([srv EXCEPT !.pdf = "failed"])
    /\ UNCHANGED <<clientVars, tokenPresent, fnVars, request>>

NextServer ==
    \/ \E body \in Bodies : POST_receive(body)
    \/ POST_json
    \/ POST_connect
    \/ POST_newPage
    \/ POST_setViewport
    \/ POST_goto
    \/ \E i \in 1..MaxImages, event \in {"load", "error"} : img_event(i, event)
    \/ POST_evaluate
    \/ POST_createPDFStream

SpecServer == InitServer /\ [][NextServer]_vars

----------------------------------------------------------------------------
\* Properties

\* The conversion whose record r is has run to its end
Done(r) == r.pc = "idle" /\ r.log # <<>>

KeyOf(r) == generateCacheKey(r.url, r.pageSize)

\* C1, as stated: if the store holds an entry under the conversion's key when
\* the conversion's store.get runs, the conversion never requests /api/pdf and
\* what it downloads is the stored payload.
C1_HitAlwaysSuppressesNetwork ==
    \A t \in Tabs :
        tabs[t].held # NoBlob =>
            /\ ~Has(tabs[t].log, "fetch")
            /\ Done(tabs[t]) => tabs[t].downloaded = tabs[t].held

\* C1, amended: if the conversion's store.get succeeds and the store holds an
\* entry under the conversion's key, the conversion never requests /api/pdf,
\* it is a hit, and it downloads exactly the stored payload.
C1_HitSuppressesNetwork ==
    \A t \in Tabs :
        (Has(tabs[t].log, "get_ok") /\ tabs[t].held # NoBlob) =>
            /\ ~Has(tabs[t].log, "fetch")
            /\ tabs[t].pc # "fetch"
            /\ tabs[t].cacheStatus = "hit"
            /\ tabs[t].downloaded = tabs[t].held
            /\ tabs[t].error = "null"

C1_Witness ==
    \E t \in Tabs :
        /\ Has(tabs[t].log, "get_ok")
        /\ tabs[t].held # NoBlob
        /\ tabs[t].downloaded = tabs[t].held

\* C2, as stated: starting from the empty store, once a conversion has
\* completed successfully, a get for its (url, pageSize) finds an entry.
C2_SuccessAlwaysPopulatesCache ==
    \A t \in Tabs :
        (Done(tabs[t]) /\ tabs[t].error = "null" /\ tabs[t].downloaded # NoBlob) =>
            BlobOf(StoreGet(store, KeyOf(tabs[t]))) # NoBlob

\* C2, amended: starting from the empty store, once a conversion has completed
\* successfully and its store.put has succeeded, a get for its (url, pageSize)
\* that succeeds finds an entry.
C2_MissPopulatesCache ==
    \A t \in Tabs :
        Has(tabs[t].log, "put_ok") =>
            /\ Done(tabs[t])
            /\ tabs[t].error = "null"
            /\ BlobOf(StoreGet(store, KeyOf(tabs[t]))) # NoBlob

C2_Witness ==
    \E t \in Tabs :
        /\ Has(tabs[t].log, "put_ok")
        /\ tabs[t].cacheStatus = "miss"
        /\ tabs[t].downloaded # NoBlob
        /\ BlobOf(StoreGet(store, KeyOf(tabs[t]))) # NoBlob

\* C3: a conversion whose url is no valid absolute URL, or whose pageSize is
\* not one of a4, letter, custom, performs no store operation (open, get, put)
\* and sends no request.
C3_InputRejection ==
    \A t \in Tabs :
        (~IsValidUrl(tabs[t].url) \/ tabs[t].pageSize \notin PageSize) =>
            tabs[t].log = <<>>

StoreErrors ==
    {"Failed to open database", "NotFoundError", "Failed to get PDF from cache",
     "Failed to save PDF to cache"}

\* C4: a conversion whose store open or store.get failed during the lookup goes
\* on as on a miss, requesting /api/pdf, and no conversion ever reports a store
\* error as its error.
C4_GracefulStoreReadFailure ==
    \A t \in Tabs :
        /\ (Has(tabs[t].log, "open_fail") \/ Has(tabs[t].log, "get_fail")) =>
               /\ tabs[t].cacheStatus = "miss"
               /\ Has(tabs[t].log, "fetch")
        /\ tabs[t].error \notin StoreErrors

C4_Witness ==
    \E t \in Tabs :
        /\ Has(tabs[t].log, "get_fail")
        /\ tabs[t].held # NoBlob
        /\ Done(tabs[t])
        /\ tabs[t].downloaded # NoBlob

\* C5: on a miss whose render succeeded, a failure of the store open or of the
\* store.put leaves the conversion successful: it downloads the PDF it has just
\* received for its url and pageSize, and reports no error.
C5_BestEffortWrite ==
    \A t \in Tabs :
        (Has(tabs[t].log, "save_open_fail") \/ Has(tabs[t].log, "put_fail")) =>
            /\ Done(tabs[t])
            /\ Has(tabs[t].log, "blob_ok")
            /\ tabs[t].blob # NoBlob
            /\ tabs[t].blob.url = tabs[t].url
            /\ tabs[t].blob.pageSize = tabs[t].pageSize
            /\ tabs[t].downloaded = tabs[t].blob
            /\ tabs[t].error = "null"

C5_Witness ==
    \E t \in Tabs :
        /\ Has(tabs[t].log, "put_fail")
        /\ tabs[t].downloaded = tabs[t].blob
        /\ tabs[t].blob # NoBlob

\* What handleSubmit's catch block reports for the failure the log records
RenderFailureMessage(r) ==
    IF Has(r.log, "response_error")
    THEN POST([url |-> r.url, pageSize |-> r.pageSize], tokenPresent,
              "render_fail", NoBlob).error
    ELSE "Failed to fetch"

RenderFailed(r) ==
    Has(r.log, "fetch_fail") \/ Has(r.log, "response_error") \/ Has(r.log, "blob_fail")

PutEvents == {"save_open_ok", "save_open_fail", "put_ok", "put_fail"}

\* C6: no conversion sends more than one request to /api/pdf, and a conversion
\* whose request failed (network error, non-ok status, broken body) has ended:
\* it has sent exactly one request, reports the failure's message as its
\* error, has downloaded nothing and has put nothing.
C6_RenderFailureTerminal ==
    \A t \in Tabs :
        /\ Count(tabs[t].log, "fetch") <= 1
        /\ RenderFailed(tabs[t]) =>
               /\ Done(tabs[t])
               /\ ~tabs[t].isLoading
               /\ Count(tabs[t].log, "fetch") = 1
               /\ tabs[t].error = RenderFailureMessage(tabs[t])
               /\ tabs[t].error # "null"
               /\ tabs[t].downloaded = NoBlob
               /\ \A i \in DOMAIN tabs[t].log :
                      tabs[t].log[i] \notin PutEvents \cup {"download"}

C6_Witness ==
    \E t \in Tabs :
        /\ Has(tabs[t].log, "response_error")
        /\ IsValidUrl(tabs[t].url)
        /\ tokenPresent
        /\ tabs[t].error = "Failed to generate PDF"
        /\ Done(tabs[t])

\* C7: within one conversion the lookup has settled before the request is sent,
\* the response body has been received in full before the store is opened for
\* the put and before the put is issued, and on a miss the put has settled
\* (succeeded or failed) before the download; the download is the last step.
C7_Ordering ==
    \A t \in Tabs :
        LET log == tabs[t].log IN
        /\ Precedes(log, {"open_fail", "get_ok", "get_fail"}, "fetch")
        /\ tabs[t].pc = "fetch" => Has(log, "fetch")
        /\ Precedes(log, {"fetch"}, "response_ok")
        /\ Precedes(log, {"response_ok"}, "blob_ok")
        /\ \A e \in PutEvents : Precedes(log, {"blob_ok"}, e)
        /\ tabs[t].pc \in {"savePdfToCache_open", "savePdfToCache_put"} =>
               Has(log, "blob_ok")
        /\ tabs[t].putSeq # 0 => Has(log, "blob_ok")
        /\ tabs[t].cacheStatus = "miss" =>
               Precedes(log, {"save_open_fail", "put_ok", "put_fail"}, "download")
        /\ \A i \in DOMAIN log : log[i] = "download" => i = Len(log)

C7_Witness ==
    \E t \in Tabs :
        tabs[t].log = <<"open_ok", "get_ok", "fetch", "response_ok", "blob_ok",
                        "save_open_ok", "put_ok", "download">>

\* C8: the store changes only in the step in which the put of a conversion on
\* the miss path, whose render has succeeded, succeeds, and then only under
\* that conversion's key; a step that ends a conversion as a hit or with an
\* error (rejected input, failed render) leaves the store as it was.
C8_EntryOnlyOnMissAfterRender ==
    [][/\ store' # store =>
              \E t \in Tabs :
                  /\ tabs[t].pc = "savePdfToCache_put"
                  /\ tabs[t].cacheStatus = "miss"
                  /\ Has(tabs[t].log, "blob_ok")
                  /\ Has(tabs'[t].log, "put_ok")
                  /\ \A e \in (store' \ store) \cup (store \ store') :
                         e.cacheKey = KeyOf(tabs[t])
       /\ \A t \in Tabs :
              (/\ tabs'[t] # tabs[t]
               /\ tabs[t].isLoading
               /\ (tabs'[t].cacheStatus = "hit" \/ tabs'[t].error # "null"))
              => store' = store]_vars

C8_Witness ==
    \E t \in Tabs :
        /\ Done(tabs[t])
        /\ tabs[t].cacheStatus = "hit"
        /\ store # {}

\* The lookup of the conversion ran, and found nothing under the key
MissedBeforeWrite(r) == Has(r.log, "get_ok") /\ r.held = NoBlob

EntriesOf(cacheKey) == {e \in store : e.cacheKey = cacheKey}

\* C9, as stated: two conversions of the same (url, pageSize) that both looked
\* up before either wrote have, once both have ended, both requested /api/pdf
\* and both put, and the store holds exactly one entry under their key, with
\* the payload of the later put.
C9_BothAlwaysPut ==
    \A t1, t2 \in Tabs :
        (/\ t1 # t2
         /\ KeyOf(tabs[t1]) = KeyOf(tabs[t2])
         /\ MissedBeforeWrite(tabs[t1]) /\ MissedBeforeWrite(tabs[t2])
         /\ Done(tabs[t1]) /\ Done(tabs[t2])) =>
            /\ Has(tabs[t1].log, "fetch") /\ Has(tabs[t2].log, "fetch")
            /\ Has(tabs[t1].log, "put_ok") /\ Has(tabs[t2].log, "put_ok")
            /\ Cardinality(EntriesOf(KeyOf(tabs[t1]))) = 1
            /\ tabs[t1].putSeq < tabs[t2].putSeq =>
                   BlobOf(StoreGet(store, KeyOf(tabs[t1]))) = tabs[t2].blob

\* C9, amended: two conversions of the same (url, pageSize) that both looked up
\* before either wrote both observe a miss and both request /api/pdf; each one
\* whose render succeeded has, once it has ended, attempted its put; the store
\* never holds more than one entry under their key, and once both puts have
\* succeeded it holds exactly one, with the payload of the later put.
C9_NoSingleFlight ==
    \A t1, t2 \in Tabs :
        (/\ t1 # t2
         /\ KeyOf(tabs[t1]) = KeyOf(tabs[t2])
         /\ MissedBeforeWrite(tabs[t1]) /\ MissedBeforeWrite(tabs[t2])) =>
            /\ tabs[t1].cacheStatus = "miss" /\ tabs[t2].cacheStatus = "miss"
            /\ Has(tabs[t1].log, "fetch") /\ Has(tabs[t2].log, "fetch")
            /\ (Done(tabs[t1]) /\ Has(tabs[t1].log, "blob_ok")) =>
                   \E e \in {"save_open_fail", "put_ok", "put_fail"} :
                       Has(tabs[t1].log, e)
            /\ Cardinality(EntriesOf(KeyOf(tabs[t1]))) <= 1
            /\ (/\ Has(tabs[t1].log, "put_ok") /\ Has(tabs[t2].log, "put_ok")
                /\ tabs[t1].putSeq < tabs[t2].putSeq) =>
                   /\ Cardinality(EntriesOf(KeyOf(tabs[t1]))) = 1
                   /\ BlobOf(StoreGet(store, KeyOf(tabs[t1]))) = tabs[t2].blob

C9_Witness ==
    \E t1, t2 \in Tabs :
        /\ t1 # t2
        /\ KeyOf(tabs[t1]) = KeyOf(tabs[t2])
        /\ MissedBeforeWrite(tabs[t1]) /\ MissedBeforeWrite(tabs[t2])
        /\ Has(tabs[t1].log, "put_ok") /\ Has(tabs[t2].log, "put_ok")
        /\ tabs[t1].putSeq < tabs[t2].putSeq
        /\ tabs[t1].blob # tabs[t2].blob
        /\ BlobOf(StoreGet(store, KeyOf(tabs[t1]))) = tabs[t2].blob

\* C10: in every reachable state the store holds at most one entry per
\* cacheKey, and every entry's cacheKey is generateCacheKey of its url and
\* pageSize.
C10_OneEntryPerKey ==
    /\ \A e1, e2 \in store : e1.cacheKey = e2.cacheKey => e1 = e2
    /\ \A e \in store : e.cacheKey = generateCacheKey(e.url, e.pageSize)

C10_Witness ==
    /\ Cardinality(store) = 1
    /\ \E t1, t2 \in Tabs :
        /\ t1 # t2
        /\ tabs[t1].putSeq = 1
        /\ tabs[t2].putSeq = 2
        /\ KeyOf(tabs[t1]) = KeyOf(tabs[t2])

\* C11: no step of the application removes a cache key from the store: a key
\* present before a step is present after it.
C11_NeverDeletes ==
    [][\A e \in store : \E e2 \in store' : e2.cacheKey = e.cacheKey]_vars

C11_Witness ==
    /\ Cardinality(store) = 2
    /\ \A t \in Tabs : Has(tabs[t].log, "put_ok")

\* What the store holds under a key, before and after a step
Under(records, cacheKey) == {e \in records : e.cacheKey = cacheKey}

PutSucceeds(t) ==
    tabs[t].pc = "savePdfToCache_put" /\ Has(tabs'[t].log, "put_ok")

GetRuns(t) ==
    /\ tabs[t].pc = "getPdfFromCache_get"
    /\ Has(tabs'[t].log, "get_ok") \/ Has(tabs'[t].log, "get_fail")

\* C13, as stated: a get (getPdfFromCache) for a (url, pageSize) under whose
\* key the store holds the payload of the last successful put returns that
\* payload.
C13_GetAlwaysReturnsPut ==
    \A t \in Tabs :
        ((Has(tabs[t].log, "get_ok") \/ Has(tabs[t].log, "get_fail"))
         /\ tabs[t].held # NoBlob) =>
            tabs[t].downloaded = tabs[t].held

\* C13, amended: a successful put for (url, pageSize) with payload b leaves
\* exactly one entry under the pair's key, with payload b and that pageSize; the
\* entries under a key change only in a successful put for that key; and a get
\* for (url, pageSize) that does not fail returns the payload the store holds
\* under the pair's key, or nothing when it holds none.
C13_RoundTrip ==
    [][\A t \in Tabs :
          /\ PutSucceeds(t) =>
                 /\ Under(store', KeyOf(tabs[t])) # {}
                 /\ \A e \in Under(store', KeyOf(tabs[t])) :
                        /\ e.blob = tabs[t].blob
                        /\ e.pageSize = tabs[t].pageSize
                        /\ e.url = tabs[t].url
          /\ ~(\E t2 \in Tabs : PutSucceeds(t2) /\ KeyOf(tabs[t2]) = KeyOf(tabs[t]))
                 => Under(store', KeyOf(tabs[t])) = Under(store, KeyOf(tabs[t]))
          /\ (GetRuns(t) /\ Has(tabs'[t].log, "get_ok")) =>
                 IF Under(store, KeyOf(tabs[t])) = {}
                 THEN tabs'[t].cacheStatus = "miss" /\ tabs'[t].downloaded = NoBlob
                 ELSE /\ tabs'[t].cacheStatus = "hit"
                      /\ \E e \in Under(store, KeyOf(tabs[t])) :
                             tabs'[t].downloaded = e.blob]_vars

C13_Witness ==
    \E t1, t2 \in Tabs :
        /\ t1 # t2
        /\ Has(tabs[t1].log, "put_ok")
        /\ KeyOf(tabs[t1]) = KeyOf(tabs[t2])
        /\ Has(tabs[t2].log, "get_ok")
        /\ tabs[t2].downloaded = tabs[t1].blob
        /\ tabs[t2].held = tabs[t1].blob

\* The conversion whose record r is has handed a PDF to the download
Succeeded(r) == Done(r) /\ Has(r.log, "download") /\ r.downloaded # NoBlob

\* C16: when a conversion has completed successfully its cacheStatus is 'hit'
\* exactly when it sent no request and downloaded what its lookup found in the
\* store, and 'miss' exactly when it downloaded the PDF that its own request
\* returned.
C16_HitMissAnnotation ==
    \A t \in Tabs :
        Succeeded(tabs[t]) =>
            /\ tabs[t].cacheStatus \in {"hit", "miss"}
            /\ tabs[t].cacheStatus = "hit" <=>
                   (/\ ~Has(tabs[t].log, "fetch")
                    /\ Has(tabs[t].log, "get_ok")
                    /\ tabs[t].downloaded = tabs[t].held)
            /\ tabs[t].cacheStatus = "miss" <=>
                   (/\ Count(tabs[t].log, "fetch") = 1
                    /\ Has(tabs[t].log, "blob_ok")
                    /\ tabs[t].downloaded = tabs[t].blob
                    /\ tabs[t].downloaded # tabs[t].held)

C16_Witness ==
    \E t1, t2 \in Tabs :
        /\ Succeeded(tabs[t1]) /\ tabs[t1].cacheStatus = "miss"
        /\ Succeeded(tabs[t2]) /\ tabs[t2].cacheStatus = "hit"

\* C20: every entry of the store holds, under the key of its url and pageSize,
\* a PDF that a successful render request for exactly that url and pageSize
\* returned; so a hit downloads a PDF rendered for the conversion's own url and
\* pageSize.
C20_CacheCoherence ==
    /\ \A e \in store :
           /\ e.blob.id \in 1..renders
           /\ e.blob.url = e.url
           /\ e.blob.pageSize = e.pageSize
    /\ \A t \in Tabs :
           (tabs[t].cacheStatus = "hit" /\ Succeeded(tabs[t])) =>
               /\ tabs[t].downloaded.id \in 1..renders
               /\ tabs[t].downloaded.url = tabs[t].url
               /\ tabs[t].downloaded.pageSize = tabs[t].pageSize

C20_Witness ==
    \E t \in Tabs :
        /\ tabs[t].cacheStatus = "hit"
        /\ tabs[t].downloaded.id >= 1
        /\ tabs[t].downloaded.url = tabs[t].url
        /\ tabs[t].downloaded.pageSize = tabs[t].pageSize

OpenPcs == {"getPdfFromCache_open", "savePdfToCache_open"}

\* C19: opening the store is idempotent and safe with several opens pending:
\* once the database exists its schema is exactly the one 'pdfs' store keyed by
\* cacheKey with its one index, the schema changes only in the open that
\* creates the database, no open changes the entries, and an open that is
\* pending can succeed whatever the other tabs are doing.
C19_OpenIdempotent ==
    /\ [](/\ dbVersion = 0 => (objectStores = {} /\ store = {})
          /\ dbVersion = 1 => objectStores = {PdfsStore}
          /\ \A s \in objectStores :
                 /\ s.name = "pdfs" /\ s.keyPath = "cacheKey"
                 /\ Cardinality(s.indexes) = 1
          /\ \A t \in Tabs :
                 /\ tabs[t].pc = "getPdfFromCache_open" =>
                        ENABLED (getPdfFromCache_open(t)
                                 /\ Has(tabs'[t].log, "open_ok"))
                 /\ tabs[t].pc = "savePdfToCache_open" =>
                        ENABLED (savePdfToCache_open(t)
                                 /\ Has(tabs'[t].log, "save_open_ok")))
    /\ [][/\ objectStores' # objectStores => (dbVersion = 0 /\ dbVersion' = 1)
          /\ \A t \in Tabs :
                 (tabs[t].pc \in OpenPcs /\ tabs'[t] # tabs[t]) =>
                     store' = store]_vars

C19_Witness ==
    \E t1, t2 \in Tabs :
        /\ t1 # t2
        /\ Has(tabs[t1].log, "put_ok")
        /\ Has(tabs[t2].log, "open_ok")
        /\ tabs[t2].putSeq = 0
        /\ store # {}
        /\ objectStores = {PdfsStore}

\* C12: generateCacheKey gives equal keys for equal (url, pageSize) pairs and
\* different keys for different pairs, for page sizes among a4, letter and
\* custom.
C12_KeyInjective ==
    output # <<>> => (output[1] = output[2] <=> input[1] = input[2])

C12_Witness ==
    /\ output # <<>>
    /\ input[1] = [url |-> UrlA, pageSize |-> A4]
    /\ input[2] = [url |-> UrlAPipeA4, pageSize |-> A4]
    /\ StartsWith(output[2], output[1])
    /\ output[1] # output[2]

ExampleDotted ==
    <<"e", "x", "a", "m", "p", "l", "e", ".", "c", "o", "m", "-", "f", "o", "o",
      "-", "b", "a", "r">>

ExampleFilename ==
    <<"e", "x", "a", "m", "p", "l", "e", "-", "c", "o", "m", "-", "f", "o", "o",
      "-", "b", "a", "r">>

\* C15, as stated: generateFilenameFromUrl("https://www.Example.com/foo/bar/")
\* is "example.com-foo-bar", and a string that does not parse as a URL gives
\* "page".
C15_DottedExample ==
    output # <<>> =>
        /\ input = ExampleUrl => output[1] = ExampleDotted
        /\ ~ParseURL(input).ok => output[1] = Page

\* C15, amended: generateFilenameFromUrl("https://www.Example.com/foo/bar/")
\* is "example-com-foo-bar", and a string that does not parse as a URL (such as
\* "not a url") gives "page".
C15_Examples ==
    output # <<>> =>
        /\ input = ExampleUrl => output[1] = ExampleFilename
        /\ input = NotAUrlSpaced => output[1] = Page
        /\ ~ParseURL(input).ok => output[1] = Page

C15_Witness == input = ExampleUrl /\ output = <<ExampleFilename>>

\* The host name without a "www." at its start
LeadingWwwRemoved(hostname) ==
    IF StartsWith(hostname, Www)
    THEN SubSeq(hostname, Len(Www) + 1, Len(hostname))
    ELSE hostname

\* The name C18 describes for a URL that parses
DescribedFilename(url) ==
    LET urlObj == ParseURL(url)
        hostname == LeadingWwwRemoved(urlObj.hostname)
        cleanPath == SlashesToHyphens(TrimOne(urlObj.pathname, "/"))
        filename == IF urlObj.pathname # <<"/">>
                    THEN hostname \o <<"-">> \o cleanPath
                    ELSE hostname
        cut == Slice(TrimOne(CollapseHyphens(Sanitize(filename)), "-"),
                     MaxFilename)
    IN IF cut # <<>> THEN cut ELSE Page

WellFormedFilename(name) ==
    /\ name # <<>>
    /\ Len(name) <= MaxFilename
    /\ Range(name) \subseteq FilenameChars
    /\ \A i \in 1..(Len(name) - 1) : ~(name[i] = "-" /\ name[i + 1] = "-")

\* C18: for every input the result of generateFilenameFromUrl is non-empty, at
\* most 100 characters long, made of ASCII letters, digits and hyphens, without
\* two hyphens in a row, and for a URL that parses it is the host name with only
\* a leading "www." removed, followed by the sanitized path.
C18_FilenameShape ==
    output # <<>> =>
        /\ WellFormedFilename(output[1])
        /\ ParseURL(input).ok => output[1] = DescribedFilename(input)

\* The part of C18 that the code keeps: the shape of the name, and the described
\* name when the host name has no "www." after its start.
C18_ShapeOnly ==
    output # <<>> =>
        /\ WellFormedFilename(output[1])
        /\ (/\ ParseURL(input).ok
            /\ ReplaceFirst(Tail(ParseURL(input).hostname), Www, <<>>)
                   = Tail(ParseURL(input).hostname)) =>
               output[1] = DescribedFilename(input)

\* The last response of the handler
LastResponse == srv.responses[Len(srv.responses)]

\* The handler has answered the request it holds
Answered == request # <<>> /\ srv.pc = "idle"

\* The body is JSON that the schema refuses: url missing or not a URL,
\* pageSize not one of a4, letter, custom, or a field the schema does not know
FailsValidation(body) ==
    /\ body # Malformed
    /\ \/ "url" \notin DOMAIN body
       \/ ~IsValidUrl(body.url)
       \/ "pageSize" \in DOMAIN body /\ body.pageSize \notin PageSize
       \/ DOMAIN body \ {"url", "pageSize"} # {}

PassesValidation(body) == body # Malformed /\ ~FailsValidation(body)

\* C14: the handler answers a body that fails validation with status 400 and a
\* valid body with status 500, never 400, when the token is absent, and in
\* neither case does it call the rendering provider.
C14_ErrorStatus ==
    /\ (request # <<>> /\ FailsValidation(request)) =>
           /\ srv.connect = "none"
           /\ Answered => LastResponse.status = 400
    /\ (request # <<>> /\ PassesValidation(request) /\ ~tokenPresent) =>
           /\ srv.connect = "none"
           /\ Answered => LastResponse.status = 500

C14_Witness ==
    /\ ~tokenPresent
    /\ Answered
    /\ Len(srv.responses) = 2
    /\ srv.responses[1].status = 400
    /\ PassesValidation(request)
    /\ "pageSize" \notin DOMAIN request
    /\ LastResponse.status = 500
    /\ srv.connect = "none"

\* C17: createPDFStream is called only after goto has settled at
\* DOMContentLoaded and every <img> of the document was complete or has fired
\* load or error; and once every image is in one of these states, failed ones
\* included, the handler can go on to createPDFStream.
C17_PdfAfterImages ==
    /\ srv.pdf # "none" =>
           /\ srv.domContentLoaded
           /\ \A i \in DOMAIN srv.images :
                  srv.images[i] \in {"complete", "load", "error"}
    /\ (/\ srv.pc = "evaluate"
        /\ \A i \in DOMAIN srv.images :
               srv.images[i] \in {"complete", "load", "error"}) =>
           ENABLED (POST_evaluate /\ srv'.pdf = "started")

C17_Witness ==
    /\ srv.pdf = "stream"
    /\ LastResponse.status = 200
    /\ \E i, j \in DOMAIN srv.images :
           srv.images[i] = "error" /\ srv.images[j] = "load"

\* C21: provided every awaited request settles, a conversion that has set
\* isLoading sets it back to false, whichever path it takes (isLoading is
\* false again and again); and when a
\* conversion has ended, an error message is set exactly when it delivered no
\* PDF.
C21_LoadingReleased ==
    /\ \A t \in Tabs : []<>(~tabs[t].isLoading)
    /\ [](\A t \in Tabs :
              /\ tabs[t].isLoading <=> tabs[t].pc # "idle"
              /\ Done(tabs[t]) =>
                     (tabs[t].error # "null" <=> ~Has(tabs[t].log, "download"))
              /\ Done(tabs[t]) =>
                     (tabs[t].error = "null" <=> tabs[t].downloaded # NoBlob))

C21_Witness ==
    \E t1, t2 \in Tabs :
        /\ Done(tabs[t1]) /\ ~tabs[t1].isLoading
        /\ tabs[t1].error # "null" /\ tabs[t1].downloaded = NoBlob
        /\ Has(tabs[t1].log, "fetch")
        /\ Done(tabs[t2]) /\ ~tabs[t2].isLoading
        /\ tabs[t2].error = "null" /\ tabs[t2].downloaded # NoBlob
        /\ Has(tabs[t2].log, "put_fail")

\* Tab t's conversion completes successfully in this step
Completes(t) == tabs[t].pc # "idle" /\ Succeeded(tabs'[t])

\* C22: the persisted conversionCount is its initial value plus the number of
\* conversions that completed successfully: a step in which a conversion
\* completes successfully, by a hit or a miss, adds one to it, and every other
\* step (a failure, a submit with an empty URL, a step in between) leaves it.
C22_CountIsSuccesses ==
    [][lsCount' = lsCount + Cardinality({t \in Tabs : Completes(t)})]_vars

\* What the code keeps of C22: a successful conversion persists its own tab's
\* count plus one, and no other step writes the persisted count.
C22_CountPerTab ==
    [][\A t \in Tabs :
          /\ Completes(t) =>
                 /\ lsCount' = tabs[t].conversionCount + 1
                 /\ tabs'[t].conversionCount = tabs[t].conversionCount + 1
          /\ (\A t2 \in Tabs : ~Completes(t2)) =>
                 /\ lsCount' = lsCount
                 /\ tabs'[t].conversionCount = tabs[t].conversionCount]_vars

====
